---- MODULE Spec2Model ----
(***************************************************************************)
(* A model of rag.py: the FileSearchTool that keeps a local ledger         *)
(* (.file_index.json) of uploaded files, uploads the files of a folder to  *)
(* the remote Files API, finds or creates a File Search store and imports  *)
(* the uploaded files into it.                                             *)
(*                                                                         *)
(* Strings are sequences of one-character tokens, so that startswith,      *)
(* split, len and the regular expressions of the code are computed as the  *)
(* code computes them.  JSON values carry their type, so that a ledger     *)
(* file holding something else than an object of objects is a state the    *)
(* model can be in.                                                        *)
(***************************************************************************)
EXTENDS Integers, Sequences, FiniteSets, TLC

(***************************************************************************)
(* Bounds of the model.                                                    *)
(***************************************************************************)
\* number of files of the docs folder (and of ledger keys)
NumPaths == 2
\* number of stores the remote service holds at most
MaxStores == 2
\* number of calls made on one tool (a prepare() is one call)
MaxCalls == 2

(***************************************************************************)
(* Program constants.                                                      *)
(***************************************************************************)
\* rag.py:212  len(file_id) > 40
MaxFileIdLen == 40
\* rag.py:91   len(slug) > 40
MaxSlugLen == 40
\* number of hex digits of uuid.uuid4().hex (rag.py:89)
UuidHexLen == 32

(***************************************************************************)
(* Characters and strings.                                                 *)
(***************************************************************************)
LowerChars == {"a", "b", "e", "f", "i", "l", "s"}
DigitChars == {"1"}
UpperChars == {"A"}
\* e_acute decomposes under NFKD; cjk does not; comb_acute is the combining mark
NonAsciiChars == {"e_acute", "comb_acute", "cjk"}
NL == "\n"

Rep(c, n) == [i \in 1..n |-> c]

StartsWith(s, p) == Len(s) >= Len(p) /\ SubSeq(s, 1, Len(p)) = p

\* 1-based index of the first c in s, 0 when there is none
RECURSIVE FindFrom(_, _, _)
FindFrom(s, c, i) ==
    IF i > Len(s) THEN 0
    ELSE IF s[i] = c THEN i
    ELSE FindFrom(s, c, i + 1)

\* 1-based index of the last c in s, 0 when there is none (str.rfind + 1)
RECURSIVE RFindFrom(_, _, _)
RFindFrom(s, c, i) ==
    IF i < 1 THEN 0
    ELSE IF s[i] = c THEN i
    ELSE RFindFrom(s, c, i - 1)

RFind(s, c) == RFindFrom(s, c, Len(s))

\* s.split("/", 1)[1] for an s that holds a "/"
SplitAfterFirstSlash(s) == SubSeq(s, FindFrom(s, "/", 1) + 1, Len(s))

IsSlugChar(c) == c \in LowerChars \cup DigitChars
IsIdChar(c) == c \in LowerChars \cup DigitChars \cup {"-"}

FilesPrefix == <<"f", "i", "l", "e", "s", "/">>

\* re.match(r"^[a-z0-9-]+$", s): Python's $ matches at the end of the string
\* and also just before a newline that ends the string.
ReMatchIdChars(s) ==
    LET body == IF Len(s) >= 1 /\ s[Len(s)] = NL
                THEN SubSeq(s, 1, Len(s) - 1)
                ELSE s
    IN  /\ Len(body) >= 1
        /\ \A i \in 1..Len(body) : IsIdChar(body[i])

\* _is_valid_file_id: every file id of the model is a str
IsValidFileId(file_ref) ==
    IF ~StartsWith(file_ref, FilesPrefix) THEN FALSE
    ELSE LET file_id == SplitAfterFirstSlash(file_ref)
         IN  IF file_id = <<>> THEN FALSE
             ELSE IF Len(file_id) > MaxFileIdLen THEN FALSE
             ELSE ReMatchIdChars(file_id)

(***************************************************************************)
(* _ascii_safe                                                             *)
(***************************************************************************)
\* os.path.splitext (genericpath._splitext with sep "/" and extsep ".")
RECURSIVE AllDots(_, _, _)
AllDots(p, from, to) ==
    IF from >= to THEN TRUE
    ELSE IF p[from] # "." THEN FALSE
    ELSE AllDots(p, from + 1, to)

SplitExtBase(p) ==
    LET sepIndex == RFind(p, "/")
        dotIndex == RFind(p, ".")
    IN  IF dotIndex > sepIndex /\ ~AllDots(p, sepIndex + 1, dotIndex)
        THEN SubSeq(p, 1, dotIndex - 1)
        ELSE p

\* unicodedata.normalize("NFKD", .) of one character
NfkdChar(c) == IF c = "e_acute" THEN <<"e", "comb_acute">> ELSE <<c>>

RECURSIVE Nfkd(_)
Nfkd(s) == IF s = <<>> THEN <<>> ELSE NfkdChar(Head(s)) \o Nfkd(Tail(s))

IsAsciiChar(c) == c \notin NonAsciiChars

\* .encode("ascii", "ignore").decode("ascii")
AsciiIgnore(s) == SelectSeq(s, IsAsciiChar)

LowerChar(c) == IF c = "A" THEN "a" ELSE c

\* str.lower
Lower(s) == [i \in 1..Len(s) |-> LowerChar(s[i])]

\* re.sub(r"[^a-z0-9]+", "-", s)
RECURSIVE SubNonSlug(_)
SubNonSlug(s) ==
    IF s = <<>> THEN <<>>
    ELSE IF IsSlugChar(Head(s)) THEN <<Head(s)>> \o SubNonSlug(Tail(s))
    ELSE IF Len(s) >= 2 /\ ~IsSlugChar(s[2]) THEN SubNonSlug(Tail(s))
    ELSE <<"-">> \o SubNonSlug(Tail(s))

RECURSIVE LStripDash(_)
LStripDash(s) ==
    IF s # <<>> /\ Head(s) = "-" THEN LStripDash(Tail(s)) ELSE s

\* str.rstrip("-")
RECURSIVE RStripDash(_)
RStripDash(s) ==
    IF s # <<>> /\ s[Len(s)] = "-"
    THEN RStripDash(SubSeq(s, 1, Len(s) - 1))
    ELSE s

\* str.strip("-")
StripDash(s) == RStripDash(LStripDash(s))

\* "file-" + uuid.uuid4().hex, the hex digits drawn by the caller
FallbackSlug(u) == <<"f", "i", "l", "e", "-">> \o u

\* the values uuid.uuid4().hex is drawn from in the model
Uuids == {Rep("1", UuidHexLen), Rep("a", UuidHexLen)}

\* _ascii_safe(s), u being the uuid drawn when the slug is empty
AsciiSafe_NoTruncation(s, u) ==
    LET slug0 == StripDash(SubNonSlug(Lower(AsciiIgnore(Nfkd(SplitExtBase(s))))))
    IN  IF slug0 = <<>> THEN FallbackSlug(u) ELSE slug0

AsciiSafe(s, u) ==
    LET base == SplitExtBase(s)
        ascii_base == AsciiIgnore(Nfkd(base))
        slug0 == StripDash(SubNonSlug(Lower(ascii_base)))
        slug1 == IF slug0 = <<>> THEN FallbackSlug(u) ELSE slug0
    IN  IF Len(slug1) > MaxSlugLen
        THEN RStripDash(SubSeq(slug1, 1, MaxSlugLen))
        ELSE slug1

(***************************************************************************)
(* JSON values and the ledger file.                                        *)
(***************************************************************************)
JObj(f) == [type |-> "object", v |-> f]
JStr(s) == [type |-> "string", v |-> s]
JArr == [type |-> "array", v |-> <<>>]
JNull == [type |-> "null", v |-> <<>>]

EmptyLedger == JObj(<<>>)

\* dict.get(k) of a dict of strings; None and "" are both the empty sequence
Get(d, k) == IF k \in DOMAIN d THEN d[k] ELSE <<>>

\* what the ledger file can hold: nothing, text json.loads rejects, or a
\* JSON document
DiskMissing == [kind |-> "missing", doc |-> JNull]
DiskCorrupt == [kind |-> "corrupt", doc |-> JNull]
DiskJson(v) == [kind |-> "json", doc |-> v]

\* _load_state: a missing file and any exception give {}; whatever json.loads
\* returns is returned as it is
LoadState(d) == IF d.kind = "json" THEN d.doc ELSE EmptyLedger

\* what _save_state can do: write the whole document, fail before the file
\* is opened, or fail after open(.., "w") has truncated it
SaveOutcomes == {"ok", "fail_untouched", "fail_truncated"}

\* the file after _save_state() of st, with outcome sv
SaveState(st, dk, sv) ==
    IF sv = "ok" THEN DiskJson(st)
    ELSE IF sv = "fail_untouched" THEN dk
    ELSE DiskCorrupt

(***************************************************************************)
(* The ledger file as text: json.dumps(.., ensure_ascii=False), the UTF-8  *)
(* encoding of write_text, the decoding of read_text and json.loads.  A    *)
(* ledger is here a function from keys to entries, keys and strings being  *)
(* sequences of characters; the text of a document is the set of its       *)
(* members, each string of it as the text of its JSON literal.             *)
(***************************************************************************)
QUOTE == "\""
BACKSLASH == "\\"
\* a lone surrogate, as str(path) holds for a byte of a file name that is
\* not UTF-8 (os.fsdecode, surrogateescape)
SURROGATE == "surrogate"

\* json.dumps of one character of a str, ensure_ascii=False
JsonEscapeChar(c) ==
    IF c = QUOTE THEN <<BACKSLASH, QUOTE>>
    ELSE IF c = BACKSLASH THEN <<BACKSLASH, BACKSLASH>>
    ELSE IF c = NL THEN <<BACKSLASH, "n">>
    ELSE <<c>>

RECURSIVE JsonEscape(_)
JsonEscape(s) ==
    IF s = <<>> THEN <<>> ELSE JsonEscapeChar(Head(s)) \o JsonEscape(Tail(s))

\* json.dumps of a str
JsonDumpsStr(s) == <<QUOTE>> \o JsonEscape(s) \o <<QUOTE>>

\* json.dumps of a field value: a str or None
JsonDumpsValue(v) ==
    IF v.type = "null" THEN <<"n", "u", "l", "l">> ELSE JsonDumpsStr(v.v)

\* json.dumps(self.state, indent=2, ensure_ascii=False)
JsonDumps(ledger) ==
    {[key |-> JsonDumpsStr(k),
      value |-> [f \in DOMAIN ledger[k] |-> JsonDumpsValue(ledger[k][f])]] :
        k \in DOMAIN ledger}

\* the bytes of one character in UTF-8; a surrogate has none
Utf8Char(c) ==
    IF c = "e_acute" THEN <<"xC3", "xA9">>
    ELSE IF c = "comb_acute" THEN <<"xCC", "x81">>
    ELSE IF c = "cjk" THEN <<"xE4", "xB8", "xAD">>
    ELSE <<c>>

RECURSIVE Utf8Encode(_)
Utf8Encode(t) ==
    IF t = <<>> THEN <<>> ELSE Utf8Char(Head(t)) \o Utf8Encode(Tail(t))

\* str.encode("utf-8") raises UnicodeEncodeError on a surrogate
Encodable(t) == \A i \in 1..Len(t) : t[i] # SURROGATE

\* bytes.decode("utf-8") of well-formed bytes
RECURSIVE Utf8Decode(_)
Utf8Decode(b) ==
    IF b = <<>> THEN <<>>
    ELSE IF Len(b) >= 2 /\ SubSeq(b, 1, 2) = <<"xC3", "xA9">>
    THEN <<"e_acute">> \o Utf8Decode(SubSeq(b, 3, Len(b)))
    ELSE IF Len(b) >= 2 /\ SubSeq(b, 1, 2) = <<"xCC", "x81">>
    THEN <<"comb_acute">> \o Utf8Decode(SubSeq(b, 3, Len(b)))
    ELSE IF Len(b) >= 3 /\ SubSeq(b, 1, 3) = <<"xE4", "xB8", "xAD">>
    THEN <<"cjk">> \o Utf8Decode(SubSeq(b, 4, Len(b)))
    ELSE <<Head(b)>> \o Utf8Decode(Tail(b))

\* the characters between the quotes of a JSON string literal, unescaped
RECURSIVE JsonUnescape(_)
JsonUnescape(t) ==
    IF t = <<>> THEN <<>>
    ELSE IF Head(t) = BACKSLASH /\ Len(t) >= 2
    THEN <<IF t[2] = "n" THEN NL ELSE t[2]>>
         \o JsonUnescape(SubSeq(t, 3, Len(t)))
    ELSE <<Head(t)>> \o JsonUnescape(Tail(t))

\* json.loads of the text of a str literal
JsonLoadsStr(t) == JsonUnescape(SubSeq(t, 2, Len(t) - 1))

\* json.loads of the text of a field value
JsonLoadsValue(t) ==
    IF t = <<"n", "u", "l", "l">> THEN JNull ELSE JStr(JsonLoadsStr(t))

\* the bytes of the text of a document, and the text of its bytes, string
\* by string
EncodeText(doc) ==
    {[key |-> Utf8Encode(m.key),
      value |-> [f \in DOMAIN m.value |-> Utf8Encode(m.value[f])]] :
        m \in doc}

DecodeText(doc) ==
    {[key |-> Utf8Decode(m.key),
      value |-> [f \in DOMAIN m.value |-> Utf8Decode(m.value[f])]] :
        m \in doc}

TextOf(doc) ==
    {m.key : m \in doc}
    \cup UNION {{m.value[f] : f \in DOMAIN m.value} : m \in doc}

\* state_file.write_text(json.dumps(..), encoding="utf-8"): open(.., "w")
\* empties the file, then the text is encoded and written
WriteText(ledger) ==
    LET doc == JsonDumps(ledger)
    IN  IF \A t \in TextOf(doc) : Encodable(t)
        THEN [out |-> "return",
              file |-> [kind |-> "bytes", doc |-> EncodeText(doc)]]
        ELSE [out |-> "raise", file |-> [kind |-> "empty", doc |-> {}]]

\* json.loads(state_file.read_text(encoding="utf-8")), {} on an exception
ReadText(file) ==
    IF file.kind = "empty" THEN <<>>
    ELSE LET doc == DecodeText(file.doc)
             keys == {JsonLoadsStr(m.key) : m \in doc}
         IN  [k \in keys |->
                LET m == CHOOSE x \in doc : JsonLoadsStr(x.key) = k
                IN  [f \in DOMAIN m.value |-> JsonLoadsValue(m.value[f])]]

(***************************************************************************)
(* The docs folder.                                                        *)
(***************************************************************************)
AllDocs == <<
    [path |-> "/docs/a.b",   name |-> <<"a", ".", "b">>],
    [path |-> "/docs/e.b",   name |-> <<"e_acute", ".", "b">>],
    [path |-> "/docs/A.a",   name |-> <<"A", ".", "a">>],
    [path |-> "/docs/cjk.b", name |-> <<"cjk", ".", "b">>],
    [path |-> "/docs/x/a.b", name |-> <<"a", ".", "b">>] >>

Paths == {AllDocs[i].path : i \in 1..NumPaths}

\* file_path.name
FileName(p) == AllDocs[CHOOSE i \in 1..Len(AllDocs) : AllDocs[i].path = p].name

\* not file_path.name.isascii()
HasNonAscii(s) == \E i \in 1..Len(s) : ~IsAsciiChar(s[i])

(***************************************************************************)
(* clean_state                                                             *)
(***************************************************************************)
\* what a step does that shows outside: remote requests, ledger writes, and
\* the attempts of an upload with the exceptions they raise
Ev(t, a) == [t |-> t, a |-> a]

\* the keys clean_state deletes: dict entries with no file_id or with one that
\* _is_valid_file_id rejects (the file_id is passed as it is stored)
RemovableKeys(st) ==
    {k \in DOMAIN st.v :
        /\ st.v[k].type = "object"
        /\ \/ Get(st.v[k].v, "file_id") = <<>>
           \/ ~IsValidFileId(Get(st.v[k].v, "file_id"))}

\* the keys whose value is no dict: v.get raises AttributeError on them
NonDictKeys(st) == {k \in DOMAIN st.v : st.v[k].type # "object"}

Without(st, ks) == JObj([k \in (DOMAIN st.v) \ ks |-> st.v[k]])

\* clean_state() on the ledger st and the file dk.  sv is what the write does;
\* seen is the set of removable keys the loop has met before it meets a value
\* that is no dict (the order of a dict is the order of the file, any order).
CleanState(st, dk, sv, seen) ==
    IF st.type # "object"
    THEN [state |-> st, disk |-> dk, out |-> "raise", removed |-> {},
          calls |-> <<>>]
    ELSE IF NonDictKeys(st) # {}
    THEN [state |-> Without(st, seen), disk |-> dk, out |-> "raise",
          removed |-> seen, calls |-> <<>>]
    ELSE LET removed == RemovableKeys(st)
             new == Without(st, removed)
         IN  IF removed = {}
             THEN [state |-> st, disk |-> dk, out |-> "return",
                   removed |-> {}, calls |-> <<>>]
             ELSE [state |-> new, disk |-> SaveState(new, dk, sv),
                   out |-> IF sv = "ok" THEN "return" ELSE "raise",
                   removed |-> removed, calls |-> <<Ev("write", <<>>)>>]

(***************************************************************************)
(* upload_file                                                             *)
(***************************************************************************)
\* what client.files.upload can answer to a request for the name n: the
\* resource files/<n>, a resource under a name of the service's choosing, or
\* a resource without a name
UploadNames(n) == {FilesPrefix \o n, FilesPrefix \o <<"A">>, <<>>}

\* what one try_upload_with_name(n) of file p can meet: the staging copy
\* fails before the temporary file exists or after shutil.copy2 has made it
\* (only a name with a non-ASCII character is staged), the remote upload
\* raises, or it returns a resource named r
AttemptOutcomes(p, n) ==
    {[kind |-> "ok", r |-> r] : r \in UploadNames(n)}
    \cup {[kind |-> "reject", r |-> <<>>]}
    \cup (IF HasNonAscii(FileName(p))
          THEN {[kind |-> "stagefail", r |-> <<>>],
                [kind |-> "stagepartial", r |-> <<>>]}
          ELSE {})

\* the finally block of try_upload_with_name: the temporary file is removed
\* when created_temp is set
RemoveTemp(name, created_temp) ==
    IF created_temp THEN <<Ev("unlink", name)>> ELSE <<>>

\* try_upload_with_name(name) of file p with outcome o; the events are the
\* call itself, the temporary file coming to exist (stage), the remote
\* upload request, the removal of the temporary file and the exception the
\* call re-raises.  created_temp is set once shutil.copy2 has returned.
TryUploadWithName(p, name, o) ==
    LET has_non_ascii == HasNonAscii(FileName(p))
        copied == has_non_ascii /\ o.kind \notin {"stagefail", "stagepartial"}
        created_temp == copied
        begun == <<Ev("attempt", name)>>
                 \o IF has_non_ascii /\ o.kind # "stagefail"
                    THEN <<Ev("stage", name)>> ELSE <<>>
    IN  IF has_non_ascii /\ ~copied
        THEN [ok |-> FALSE, r |-> <<>>,
              calls |-> begun \o RemoveTemp(name, created_temp)
                        \o <<Ev("raise", name)>>]
        ELSE IF o.kind = "ok"
        THEN [ok |-> TRUE, r |-> o.r,
              calls |-> begun \o <<Ev("upload", name)>>
                        \o RemoveTemp(name, created_temp)]
        ELSE [ok |-> FALSE, r |-> <<>>,
              calls |-> begun \o <<Ev("upload", name)>>
                        \o RemoveTemp(name, created_temp)
                        \o <<Ev("raise", name)>>]

\* the ledger entry upload_file builds (file_info)
FileInfo(p, r, safe_name) ==
    JObj([file_id |-> r, file_name |-> r,
          original_file_name |-> FileName(p), safe_file_name |-> safe_name])

\* self.state[key] = file_info
Put(st, k, e) ==
    JObj([x \in (DOMAIN st.v) \cup {k} |-> IF x = k THEN e ELSE st.v[x]])

\* the attempts of upload_file: the original name first and the safe name
\* after a failure when prefer_utf8, the safe name alone otherwise
UploadAttempts_AlwaysBoth(p, prefer, safe_name, o1, o2) ==
    LET a1 == TryUploadWithName(p, FileName(p), o1)
        a2 == TryUploadWithName(p, safe_name, o2)
    IN  [a2 EXCEPT !.calls = a1.calls \o a2.calls]

UploadAttempts(p, prefer, safe_name, o1, o2) ==
    IF prefer
    THEN LET a1 == TryUploadWithName(p, FileName(p), o1)
         IN  IF a1.ok THEN a1
             ELSE LET a2 == TryUploadWithName(p, safe_name, o2)
                  IN  [a2 EXCEPT !.calls = a1.calls \o a2.calls]
    ELSE TryUploadWithName(p, safe_name, o1)

UploadFile_NoCache(st, dk, p, prefer, u, o1, o2, sv) ==
    LET safe_name == AsciiSafe(FileName(p), u)
        a == UploadAttempts(p, prefer, safe_name, o1, o2)
        new == Put(st, p, FileInfo(p, a.r, safe_name))
    IN  IF ~a.ok
        THEN [state |-> st, disk |-> dk, out |-> "raise", val |-> JNull,
              calls |-> a.calls]
        ELSE [state |-> new, disk |-> SaveState(new, dk, sv),
              out |-> IF sv = "ok" THEN "return" ELSE "raise",
              val |-> IF sv = "ok" THEN new.v[p] ELSE JNull,
              calls |-> a.calls \o <<Ev("write", <<>>)>>]

\* upload_file(p) on the ledger st and the file dk: u is the uuid _ascii_safe
\* draws, o1 and o2 what the first and the second attempt meet, sv what the
\* write of the ledger does
UploadFile(st, dk, p, prefer, u, o1, o2, sv) ==
    IF st.type # "object"
    THEN [state |-> st, disk |-> dk, out |-> "raise", val |-> JNull,
          calls |-> <<>>]
    ELSE IF p \in DOMAIN st.v /\ st.v[p].type # "object"
    THEN [state |-> st, disk |-> dk, out |-> "raise", val |-> JNull,
          calls |-> <<>>]
    ELSE IF p \in DOMAIN st.v /\ Get(st.v[p].v, "file_id") # <<>>
    THEN [state |-> st, disk |-> dk, out |-> "return", val |-> st.v[p],
          calls |-> <<>>]
    ELSE LET safe_name == AsciiSafe(FileName(p), u)
             a == UploadAttempts(p, prefer, safe_name, o1, o2)
             new == Put(st, p, FileInfo(p, a.r, safe_name))
         IN  IF ~a.ok
             THEN [state |-> st, disk |-> dk, out |-> "raise", val |-> JNull,
                   calls |-> a.calls]
             ELSE [state |-> new, disk |-> SaveState(new, dk, sv),
                   out |-> IF sv = "ok" THEN "return" ELSE "raise",
                   val |-> IF sv = "ok" THEN new.v[p] ELSE JNull,
                   calls |-> a.calls \o <<Ev("write", <<>>)>>]

(***************************************************************************)
(* import_file_to_store                                                    *)
(***************************************************************************)
\* the file_ref import_file_to_store builds from file_name
NormalizeRef(file_name) ==
    IF ~StartsWith(file_name, FilesPrefix)
    THEN FilesPrefix \o file_name
    ELSE file_name

\* the test of op.done in "while not op.done", on an operation in status
OpDone(status) ==
    <<Ev("op.done", <<IF status = "done" THEN "True" ELSE "False">>)>>

\* what client.file_search_stores.import_file can do: raise, return an
\* operation that is done, or return one that is not
ImportOutcomes == {"raise", "done", "pending"}

\* an import that does not wait for its operation
ImportFileToStore_NoWait(file_name, io) ==
    IF file_name = <<>>
    THEN [res |-> "Skipped_missing", calls |-> <<>>]
    ELSE LET file_ref == NormalizeRef(file_name)
         IN  IF ~IsValidFileId(file_ref)
             THEN [res |-> "Skipped_invalid", calls |-> <<>>]
             ELSE [res |-> IF io = "raise" THEN "Failed" ELSE "Registered",
                   calls |-> <<Ev("import", file_ref)>>
                             \o IF io = "raise" THEN <<>> ELSE OpDone(io)]

\* import_file_to_store(store_name, file_name) up to the first test of
\* op.done, io being what the remote request does.  The code returns None
\* for a skip and for a failure; res names the branch that returned.
ImportFileToStore(file_name, io) ==
    IF file_name = <<>>
    THEN [res |-> "Skipped_missing", calls |-> <<>>]
    ELSE LET file_ref == NormalizeRef(file_name)
         IN  IF ~IsValidFileId(file_ref)
             THEN [res |-> "Skipped_invalid", calls |-> <<>>]
             ELSE [res |-> IF io = "raise" THEN "Failed"
                           ELSE IF io = "done" THEN "Registered"
                           ELSE "pending",
                   calls |-> <<Ev("import", file_ref)>>
                             \o IF io = "raise" THEN <<>> ELSE OpDone(io)]

\* what client.operations.get can do in the wait loop
PollOutcomes == {"raise", "done", "pending"}

\* one turn of the wait loop: time.sleep(2), operations.get(op), op.done
PollOperation_ReturnsAfterOnePoll(po) ==
    [out |-> IF po = "raise" THEN "raise" ELSE "return",
     res |-> IF po = "raise" THEN "pending" ELSE "Registered",
     calls |-> <<Ev("poll", <<>>)>>
               \o IF po = "raise" THEN <<>> ELSE OpDone(po)]

\* a wait loop that goes round whatever op.done says
PollOperation_NeverLeaves(po) ==
    [out |-> IF po = "raise" THEN "raise" ELSE "pending",
     res |-> "pending",
     calls |-> <<Ev("poll", <<>>)>>
               \o IF po = "raise" THEN <<>> ELSE OpDone(po)]

PollOperation(po) ==
    [out |-> IF po = "raise" THEN "raise"
             ELSE IF po = "done" THEN "return" ELSE "pending",
     res |-> IF po = "done" THEN "Registered" ELSE "pending",
     calls |-> <<Ev("poll", <<>>)>>
               \o IF po = "raise" THEN <<>> ELSE OpDone(po)]

(***************************************************************************)
(* create_or_get_file_search_store                                         *)
(***************************************************************************)
NoStore == [name |-> 0, display_name |-> <<>>]

\* the indexes of the listed stores whose display name is the requested name
\* or its safe form
MatchingStores(stores, display, safe_display) ==
    {i \in 1..Len(stores) :
        \/ stores[i].display_name = display
        \/ stores[i].display_name = safe_display}

Min(S) == CHOOSE x \in S : \A y \in S : x <= y

\* client.file_search_stores.create: the store as the service holds it
NewStore(stores, display) == [name |-> Len(stores) + 1, display_name |-> display]

\* what a create request can do: the service refuses a store beyond MaxStores
CreateOutcomes(stores) ==
    IF Len(stores) < MaxStores THEN {"ok", "raise"} ELSE {"raise"}

CreateOrGet_LastMatch(stores, display, prefer, u, lo, c1, c2) ==
    LET m == MatchingStores(stores, display, AsciiSafe(display, u))
        n == AsciiSafe(display, u)
    IN  IF lo = "raise"
        THEN [stores |-> stores, out |-> "raise", val |-> NoStore,
              calls |-> <<Ev("list", <<>>)>>]
        ELSE IF m # {}
        THEN [stores |-> stores, out |-> "return",
              val |-> stores[CHOOSE i \in m : \A j \in m : i >= j],
              calls |-> <<Ev("list", <<>>)>>]
        ELSE [stores |-> IF c1 = "ok" THEN Append(stores, NewStore(stores, n))
                         ELSE stores,
              out |-> IF c1 = "ok" THEN "return" ELSE "raise",
              val |-> IF c1 = "ok" THEN NewStore(stores, n) ELSE NoStore,
              calls |-> <<Ev("list", <<>>), Ev("create", n)>>]

\* create_or_get_file_search_store() with the service holding stores: u is
\* the uuid _ascii_safe draws, lo what list() does, c1 and c2 what the first
\* and the second create do
CreateOrGet(stores, display, prefer, u, lo, c1, c2) ==
    LET safe_display == AsciiSafe(display, u)
        m == MatchingStores(stores, display, safe_display)
        listed == <<Ev("list", <<>>)>>
        Created(n, calls) ==
            [stores |-> Append(stores, NewStore(stores, n)), out |-> "return",
             val |-> NewStore(stores, n), calls |-> calls]
        Raised(calls) ==
            [stores |-> stores, out |-> "raise", val |-> NoStore,
             calls |-> calls]
    IN  IF lo = "raise" THEN Raised(listed)
        ELSE IF m # {}
        THEN [stores |-> stores, out |-> "return", val |-> stores[Min(m)],
              calls |-> listed]
        ELSE IF prefer
        THEN IF c1 = "ok"
             THEN Created(display, listed \o <<Ev("create", display)>>)
             ELSE IF c2 = "ok"
             THEN Created(safe_display,
                          listed \o <<Ev("create", display),
                                      Ev("create", safe_display)>>)
             ELSE Raised(listed \o <<Ev("create", display),
                                     Ev("create", safe_display)>>)
        ELSE IF c1 = "ok"
        THEN Created(safe_display, listed \o <<Ev("create", safe_display)>>)
        ELSE Raised(listed \o <<Ev("create", safe_display)>>)

(***************************************************************************)
(* The tool: one FileSearchTool and the remote service it talks to.        *)
(***************************************************************************)
VARIABLES
    state,              \* self.state, the ledger in memory
    disk,               \* .file_index.json
    prefer_utf8,        \* the prefer_utf8 attribute (False when not set)
    store_display_name, \* self.store_display_name
    stores,             \* the stores of the remote service, in listing order
    pc,                 \* where the running call stands ("idle": none runs,
                        \* "returned": it has ended and last tells how)
    caller,             \* who waits for the import: "direct" or "prepare"
    files,              \* prepare: files, the listing of the docs folder
    idx,                \* prepare: the index in files of the file in hand
    store,              \* prepare: store
    info,               \* prepare: info, what upload_file returned
    uploads,            \* prepare: the files upload_file was called for, each
                        \* with the file_id it returned (empty when none)
    imports,            \* prepare: the files import_file_to_store was called for
    ncalls,             \* the number of calls made on the tool
    calls,              \* the events of the last step (see Ev)
    last,               \* the call the last step completed, and how it ended
    resolved,           \* the store create_or_get_file_search_store returned
                        \* last, to prepare or to a direct caller
    input,              \* a function of the tool applied on its own: the input
    output              \* and what the function returned or raised

vars == <<state, disk, prefer_utf8, store_display_name, stores, pc, caller,
          files, idx, store, info, uploads, imports, ncalls, calls, last,
          resolved, input, output>>

\* a ledger entry as an earlier run or an editor left it in the file
Entry(fid) == JObj([file_id |-> fid, file_name |-> fid])

ValidRef == FilesPrefix \o <<"a", "-", "1">>
BareId == <<"a", "-", "1">>
NewlineRef == FilesPrefix \o <<"a", NL>>
UpperRef == FilesPrefix \o <<"A">>

\* the values of the ledger file at start-up
InitEntries ==
    {Entry(ValidRef), Entry(<<>>), Entry(BareId), Entry(NewlineRef),
     JStr(<<"a">>)}

InitLedgers ==
    UNION {[K -> InitEntries] : K \in SUBSET Paths}

InitDisks ==
    {DiskMissing, DiskCorrupt, DiskJson(JArr)}
    \cup {DiskJson(JObj(f)) : f \in InitLedgers}

\* the display names the tool is made with
RequestedNames == {<<"A", " ", "b">>, <<"cjk">>}

\* the display names of the stores the service holds at start-up
ListedNames == {<<"a", "-", "b">>, <<"b">>}

RECURSIVE SeqsUpTo(_, _)
SeqsUpTo(S, n) ==
    IF n = 0 THEN {<<>>}
    ELSE LET shorter == SeqsUpTo(S, n - 1)
         IN  shorter \cup {Append(q, x) : q \in shorter, x \in S}

InitStores ==
    {[i \in 1..Len(q) |-> [name |-> i, display_name |-> q[i]]] :
        q \in SeqsUpTo(ListedNames, MaxStores)}

\* the listings _list_docs can return: the files of the folder in any order
Listings ==
    {q \in SeqsUpTo(Paths, NumPaths) :
        \A i, j \in 1..Len(q) : i # j => q[i] # q[j]}

\* the identifiers import_file_to_store is called with directly
RawIds ==
    {<<>>, FilesPrefix, BareId, ValidRef, UpperRef, NewlineRef,
     FilesPrefix \o Rep("a", MaxFileIdLen + 1)}

\* how a call ended: the operation, its argument, "return" or "raise" (or
\* "pending"), and the value returned, kept with the operation it is of
Done(op, arg, out, val) ==
    [op |-> op, arg |-> arg, out |-> out, val |-> [type |-> op, v |-> val]]

\* no function is applied on its own
NoArg == [fn |-> "none", s |-> <<>>, ledger |-> <<>>]
NoRes == [out |-> "none", val |-> <<>>]

\* The start-up states: any ledger file with a service that holds no store,
\* or no ledger file with any list of stores.
Init ==
    /\ \/ /\ disk \in InitDisks
          /\ stores = <<>>
          /\ store_display_name = <<"A", " ", "b">>
       \/ /\ disk = DiskMissing
          /\ stores \in InitStores
          /\ store_display_name \in RequestedNames
    /\ state = LoadState(disk)
    /\ prefer_utf8 \in BOOLEAN
    /\ pc = "idle"
    /\ caller = "none"
    /\ files = <<>>
    /\ idx = 0
    /\ store = NoStore
    /\ info = JNull
    /\ uploads = <<>>
    /\ imports = <<>>
    /\ ncalls = 0
    /\ calls = <<>>
    /\ last = Done("load_state", <<>>, "return", state)
    /\ resolved = NoStore
    /\ input = NoArg
    /\ output = NoRes

config == <<prefer_utf8, store_display_name>>
batch == <<files, idx, store, info, uploads, imports>>
applied == <<input, output>>

\* the names the model sanitizes, with their safe forms for each uuid that
\* _ascii_safe can draw, and those among them whose slug is empty
NamesInUse == {AllDocs[i].name : i \in 1..Len(AllDocs)} \cup RequestedNames
SafeOf == [s \in NamesInUse, u \in Uuids |-> AsciiSafe(s, u)]
FallbackNames ==
    {s \in NamesInUse : \E u1, u2 \in Uuids : SafeOf[s, u1] # SafeOf[s, u2]}

\* the uuids that make a difference to _ascii_safe(s): all of them when the
\* slug is empty, one of them otherwise
UuidsFor(s) ==
    IF s \in FallbackNames THEN Uuids ELSE {CHOOSE u \in Uuids : TRUE}

\* a call is made on the tool
Called == pc = "idle" /\ ncalls < MaxCalls /\ ncalls' = ncalls + 1

\* the call has ended
Returned == pc' = "returned"

\* what a clean_state() of the ledger st can meet
CleanChoices(st) ==
    IF st.type # "object" THEN {[sv |-> "ok", seen |-> {}]}
    ELSE IF NonDictKeys(st) # {}
    THEN {[sv |-> "ok", seen |-> K] : K \in SUBSET RemovableKeys(st)}
    ELSE IF RemovableKeys(st) = {} THEN {[sv |-> "ok", seen |-> {}]}
    ELSE {[sv |-> sv, seen |-> {}] : sv \in SaveOutcomes}

\* whether upload_file(p) gets to its attempts
Uploads(st, p) ==
    /\ st.type = "object"
    /\ p \in DOMAIN st.v =>
        /\ st.v[p].type = "object"
        /\ Get(st.v[p].v, "file_id") = <<>>

\* what an upload_file(p) on the ledger st can meet
UploadChoices(st, p, prefer) ==
    IF ~Uploads(st, p)
    THEN {[u |-> CHOOSE u \in Uuids : TRUE, sv |-> "ok",
           o1 |-> [kind |-> "reject", r |-> <<>>],
           o2 |-> [kind |-> "reject", r |-> <<>>]]}
    ELSE UNION {
        LET first == IF prefer THEN FileName(p) ELSE SafeOf[FileName(p), u]
        IN  UNION {
            UNION {
                {[u |-> u, sv |-> sv, o1 |-> o1, o2 |-> o2] :
                    sv \in IF o1.kind = "ok" \/ (prefer /\ o2.kind = "ok")
                           THEN SaveOutcomes ELSE {"ok"}} :
                o2 \in IF prefer /\ o1.kind # "ok"
                       THEN AttemptOutcomes(p, SafeOf[FileName(p), u])
                       ELSE {[kind |-> "reject", r |-> <<>>]}} :
            o1 \in AttemptOutcomes(p, first)} :
        u \in UuidsFor(FileName(p))}

\* what a create_or_get_file_search_store() can meet
ResolveChoices(sts, display, prefer) ==
    {[u |-> u, lo |-> "raise", c1 |-> "raise", c2 |-> "raise"] :
        u \in {CHOOSE u \in Uuids : TRUE}}
    \cup UNION {
        IF MatchingStores(sts, display, SafeOf[display, u]) # {}
        THEN {[u |-> u, lo |-> "ok", c1 |-> "raise", c2 |-> "raise"]}
        ELSE {[u |-> u, lo |-> "ok", c1 |-> c1, c2 |-> c2] :
                c1 \in CreateOutcomes(sts),
                c2 \in IF prefer THEN CreateOutcomes(sts) ELSE {"raise"}} :
        u \in UuidsFor(display)}

\* tool.clean_state(), as main does for --clean-state-only
CallCleanState ==
    /\ Called
    /\ \E c \in CleanChoices(state) :
        LET r == CleanState(state, disk, c.sv, c.seen)
        IN  /\ state' = r.state
            /\ disk' = r.disk
            /\ calls' = r.calls
            /\ last' = Done("clean_state", <<>>, r.out, r.removed)
    /\ Returned
    /\ UNCHANGED <<applied, resolved, config, stores, caller, batch>>

\* tool.upload_file(p)
CallUploadFile ==
    /\ Called
    /\ \E p \in Paths :
        \E c \in UploadChoices(state, p, prefer_utf8) :
            LET r == UploadFile(state, disk, p, prefer_utf8,
                                c.u, c.o1, c.o2, c.sv)
            IN  /\ state' = r.state
                /\ disk' = r.disk
                /\ calls' = r.calls
                /\ last' = Done("upload_file", p, r.out, r.val)
    /\ Returned
    /\ UNCHANGED <<applied, resolved, config, stores, caller, batch>>

\* tool.create_or_get_file_search_store()
CallCreateOrGet ==
    /\ Called
    /\ \E c \in ResolveChoices(stores, store_display_name, prefer_utf8) :
        LET r == CreateOrGet(stores, store_display_name, prefer_utf8,
                             c.u, c.lo, c.c1, c.c2)
        IN  /\ stores' = r.stores
            /\ calls' = r.calls
            /\ last' = Done("create_or_get", <<>>, r.out, r.val)
            /\ resolved' = IF r.out = "return" THEN r.val ELSE resolved
    /\ Returned
    /\ UNCHANGED <<applied, state, disk, config, caller, batch>>

\* tool.import_file_to_store(store_name, raw), up to the first test of op.done
CallImport ==
    /\ Called
    /\ \E raw \in RawIds, io \in ImportOutcomes :
        LET r == ImportFileToStore(raw, io)
        IN  /\ calls' = r.calls
            /\ IF r.res = "pending"
               THEN /\ pc' = "poll"
                    /\ caller' = "direct"
                    /\ last' = Done("import_file_to_store", raw, "pending", r.res)
               ELSE /\ Returned
                    /\ caller' = "none"
                    /\ last' = Done("import_file_to_store", raw, "return", r.res)
    /\ UNCHANGED <<applied, resolved, state, disk, config, stores, batch>>

\* the ask command of main: the store is looked up by its display name.
\* (The generation request that follows is no part of the model.)
AskLookup(sts, display, lo) ==
    LET m == {i \in 1..Len(sts) : sts[i].display_name = display}
    IN  IF lo = "raise"
        THEN [out |-> "raise", val |-> NoStore]
        ELSE [out |-> "return",
              val |-> IF m = {} THEN NoStore ELSE sts[Min(m)]]

CallAsk ==
    /\ Called
    /\ \E lo \in {"ok", "raise"} :
        LET r == AskLookup(stores, store_display_name, lo)
        IN  last' = Done("ask", <<>>, r.out, r.val)
    /\ calls' = <<Ev("list", <<>>)>>
    /\ Returned
    /\ UNCHANGED <<applied, resolved, state, disk, config, stores, caller,
                   batch>>

(***************************************************************************)
(* prepare                                                                 *)
(***************************************************************************)
\* what _list_docs can do: raise FileNotFoundError, or return a listing
ListDocsOutcomes == {[ok |-> FALSE, files |-> <<>>]}
                    \cup {[ok |-> TRUE, files |-> q] : q \in Listings}

\* prepare() returns store, or an exception leaves it at the stage named
PrepareReturned(s, fs, ups, imps) ==
    Done("prepare", <<>>, "return",
         [store |-> s, files |-> fs, uploads |-> ups, imports |-> imps])
PrepareRaised(stage) == Done("prepare", stage, "raise", JNull)

ResetBatch ==
    /\ files' = <<>>
    /\ idx' = 0
    /\ store' = NoStore
    /\ info' = JNull
    /\ uploads' = <<>>
    /\ imports' = <<>>

\* prepare(): create_or_get_file_search_store(), _list_docs() and the return
\* for an empty folder
PrepareStart ==
    /\ Called
    /\ \E c \in ResolveChoices(stores, store_display_name, prefer_utf8) :
        LET r == CreateOrGet(stores, store_display_name, prefer_utf8,
                             c.u, c.lo, c.c1, c.c2)
        IN  /\ stores' = r.stores
            /\ calls' = r.calls
            /\ resolved' = IF r.out = "return" THEN r.val ELSE resolved
            /\ IF r.out = "raise"
               THEN /\ last' = PrepareRaised("create_or_get")
                    /\ Returned
                    /\ UNCHANGED batch
               ELSE \E ld \in ListDocsOutcomes :
                    IF ~ld.ok
                    THEN /\ last' = PrepareRaised("list_docs")
                         /\ Returned
                         /\ UNCHANGED batch
                    ELSE IF ld.files = <<>>
                    THEN /\ last' = PrepareReturned(r.val, <<>>, <<>>, <<>>)
                         /\ Returned
                         /\ UNCHANGED batch
                    ELSE /\ last' = Done("create_or_get", <<>>, "return", r.val)
                         /\ pc' = "prep_clean"
                         /\ store' = r.val
                         /\ files' = ld.files
                         /\ UNCHANGED <<idx, info, uploads, imports>>
    /\ UNCHANGED <<applied, state, disk, config, caller>>

\* prepare(): self.clean_state()
PrepareClean ==
    /\ pc = "prep_clean"
    /\ \E c \in CleanChoices(state) :
        LET r == CleanState(state, disk, c.sv, c.seen)
        IN  /\ state' = r.state
            /\ disk' = r.disk
            /\ calls' = r.calls
            /\ IF r.out = "raise"
               THEN /\ last' = PrepareRaised("clean_state")
                    /\ Returned
                    /\ ResetBatch
               ELSE /\ last' = Done("clean_state", <<>>, "return", r.removed)
                    /\ pc' = "prep_upload"
                    /\ idx' = 1
                    /\ UNCHANGED <<files, store, info, uploads, imports>>
    /\ UNCHANGED <<applied, resolved, config, stores, caller, ncalls>>

\* the end of one turn of the for loop of prepare: the next file, or the end
NextFile_StopsAtFailure(failed) ==
    IF idx < Len(files) /\ ~failed
    THEN pc' = "prep_upload" /\ idx' = idx + 1
    ELSE pc' = "prep_return" /\ idx' = idx

NextFile(failed) ==
    IF idx < Len(files)
    THEN pc' = "prep_upload" /\ idx' = idx + 1
    ELSE pc' = "prep_return" /\ idx' = idx

\* prepare(): info = self.upload_file(f), the except and the test of info
PrepareUpload ==
    /\ pc = "prep_upload"
    /\ \E c \in UploadChoices(state, files[idx], prefer_utf8) :
        LET r == UploadFile(state, disk, files[idx], prefer_utf8,
                            c.u, c.o1, c.o2, c.sv)
        IN  /\ state' = r.state
            /\ disk' = r.disk
            /\ calls' = r.calls
            /\ last' = Done("upload_file", files[idx], r.out, r.val)
            /\ uploads' = Append(uploads,
                    [f |-> files[idx], out |-> r.out,
                     id |-> IF r.out = "return" THEN Get(r.val.v, "file_id")
                            ELSE <<>>])
            /\ IF r.out = "raise"
               THEN NextFile(TRUE) /\ info' = JNull
               ELSE IF Get(r.val.v, "file_id") = <<>>
               THEN NextFile(FALSE) /\ info' = JNull
               ELSE pc' = "prep_import" /\ idx' = idx /\ info' = r.val
    /\ UNCHANGED <<applied, resolved, config, stores, caller, files, store,
                   imports, ncalls>>

\* prepare(): op = self.import_file_to_store(store_name, info["file_id"])
PrepareImport ==
    /\ pc = "prep_import"
    /\ \E io \in ImportOutcomes :
        LET r == ImportFileToStore(info.v["file_id"], io)
        IN  /\ calls' = r.calls
            /\ imports' = Append(imports, files[idx])
            /\ IF r.res = "pending"
               THEN /\ pc' = "poll"
                    /\ caller' = "prepare"
                    /\ idx' = idx
                    /\ last' = Done("import_file_to_store", info.v["file_id"],
                                    "pending", r.res)
               ELSE /\ NextFile(r.res # "Registered")
                    /\ caller' = "none"
                    /\ last' = Done("import_file_to_store", info.v["file_id"],
                                    "return", r.res)
    /\ UNCHANGED <<applied, resolved, state, disk, config, stores, files,
                   store, info, uploads, ncalls>>

\* import_file_to_store: one turn of the wait loop.  An exception of
\* operations.get leaves import_file_to_store; prepare catches it.
Poll ==
    /\ pc = "poll"
    /\ \E po \in PollOutcomes :
        LET r == PollOperation(po)
        IN  /\ calls' = r.calls
            /\ last' = Done("import_file_to_store", last.arg, r.out, r.res)
            /\ IF r.out = "pending"
               THEN UNCHANGED <<pc, caller, idx>>
               ELSE IF caller = "direct"
               THEN Returned /\ caller' = "none" /\ idx' = idx
               ELSE NextFile(r.out = "raise") /\ caller' = "none"
    /\ UNCHANGED <<applied, resolved, state, disk, config, stores, files,
                   store, info, uploads, imports, ncalls>>

\* prepare(): return store
PrepareReturn ==
    /\ pc = "prep_return"
    /\ Returned
    /\ last' = PrepareReturned(store, files, uploads, imports)
    /\ calls' = <<>>
    /\ ResetBatch
    /\ UNCHANGED <<applied, resolved, state, disk, config, stores, caller,
                   ncalls>>

\* the caller has the result of the call and is free to make the next one
NoCall == Done("none", <<>>, "return", JNull)

Return ==
    /\ pc = "returned"
    /\ pc' = "idle"
    /\ last' = NoCall
    /\ calls' = <<>>
    /\ UNCHANGED <<applied, resolved, state, disk, config, stores, caller,
                   batch, ncalls>>

Next ==
    \/ CallCleanState
    \/ CallUploadFile
    \/ CallCreateOrGet
    \/ CallImport
    \/ CallAsk
    \/ PrepareStart
    \/ PrepareClean
    \/ PrepareUpload
    \/ PrepareImport
    \/ Poll
    \/ PrepareReturn
    \/ Return

Spec == Init /\ [][Next]_vars

\* The stages of prepare() and the places control can be at
PrepareStages == {"prep_clean", "prep_upload", "prep_import", "prep_return"}
Places == PrepareStages \cup {"idle", "poll", "returned"}

\* prepare() goes on: control leaves the statement it is at, or comes to the
\* same statement for the next file.  On a stage of prepare() the only steps
\* of Next are PrepareClean, PrepareUpload, PrepareImport and PrepareReturn,
\* each of them is enabled there and each changes <<pc, idx>>.
PrepareAdvances ==
    /\ pc \in PrepareStages
    /\ pc' \in Places
    /\ idx' \in 0..NumPaths
    /\ <<pc', idx'>> # <<pc, idx>>

\* the tool started on no ledger file, with a service that holds no store
RunInit == Init /\ disk = DiskMissing /\ stores = <<>>

\* The tool runs: a prepare() that has started takes its next step, each
\* remote call of the step returning or raising (the interpreter runs one
\* thread and no statement of prepare() blocks but the wait loop).  Nothing
\* is assumed of the wait loop of import_file_to_store: the operation may
\* stay pending for ever.
RunSpec == RunInit /\ [][Next]_vars /\ WF_<<pc, idx>>(PrepareAdvances)

(***************************************************************************)
(* The functions of the tool applied on their own: the start-up state      *)
(* draws an input and one step applies the function to it.  The tool       *)
(* itself stands still.                                                    *)
(***************************************************************************)
\* strings of the set S of at most n characters
Strings(S, n) == SeqsUpTo(S, n)

\* the paths and the names the ledgers of LedgerInputs are made of
LedgerKeys ==
    {<<"/", "a">>, <<"/", "e_acute">>, <<"/", "cjk", " ", "a">>,
     <<"/", QUOTE, BACKSLASH, "n", NL>>, <<"/", SURROGATE>>}
LedgerNames ==
    {<<"a", ".", "b">>, <<"e_acute", BACKSLASH, BACKSLASH, QUOTE>>,
     <<"cjk", NL, "comb_acute">>, <<SURROGATE, ".", "b">>}

\* an entry as upload_file builds it: resource.name, a str or None, and the
\* name of the file
LedgerEntries ==
    {[file_id |-> id, original_file_name |-> JStr(n)] :
        id \in {JNull, JStr(ValidRef)}, n \in LedgerNames}

\* the ledgers of at most NumPaths entries
LedgerInputs ==
    UNION {[K -> LedgerEntries] :
            K \in {X \in SUBSET LedgerKeys : Cardinality(X) <= NumPaths}}

\* the strings _ascii_safe is applied to: the short strings of these
\* characters, and strings about MaxSlugLen long
SanitizerChars == {"a", "A", "1", "-", ".", "/", " ", "e_acute", "cjk"}
SanitizerInputs ==
    Strings(SanitizerChars, 3)
    \cup {Rep("a", MaxSlugLen + 1),
          Rep("a", MaxSlugLen - 1) \o <<"-", "b">>,
          Rep("a", MaxSlugLen - 1) \o <<" ", ".", "b", ".", "a">>,
          Rep("a", MaxSlugLen) \o <<".", "b">>,
          Rep("-", MaxSlugLen + 1),
          Rep("cjk", MaxSlugLen + 1)}

\* the references _is_valid_file_id is applied to, with and without the
\* files/ prefix: the short ids of these characters, and ids about
\* MaxFileIdLen long
RefChars == {"a", "A", "-", "1", "/", NL}
RefInputs ==
    LET ids == Strings(RefChars, 2)
               \cup {<<"a", "b", "-", "1">>, Rep("a", MaxFileIdLen),
                     Rep("a", MaxFileIdLen + 1),
                     Rep("a", MaxFileIdLen - 1) \o <<NL>>,
                     Rep("a", MaxFileIdLen) \o <<NL>>}
    IN  ids \cup {FilesPrefix \o x : x \in ids}

\* the listings of two distinct files that rglob("*") can give: files that
\* differ in extension, case or accents, or lie in different folders
ListingPairs ==
    {q \in {<<AllDocs[i].path, AllDocs[j].path>> : i, j \in 1..Len(AllDocs)} :
        q[1] # q[2]}

\* the remote upload accepts the name n and answers the resource files/n
Accepted(n) == [kind |-> "ok", r |-> FilesPrefix \o n]
NotTried == [kind |-> "reject", r |-> <<>>]

FnArgs ==
    {[fn |-> "save_load", s |-> <<>>, ledger |-> L] : L \in LedgerInputs}
    \cup {[fn |-> "_ascii_safe", s |-> x, ledger |-> <<>>] :
            x \in SanitizerInputs}
    \cup {[fn |-> "_is_valid_file_id", s |-> x, ledger |-> <<>>] :
            x \in RefInputs}
    \cup {[fn |-> "upload_names", s |-> x, ledger |-> <<>>] :
            x \in ListingPairs}

FnInit ==
    /\ disk = DiskMissing
    /\ stores = <<>>
    /\ store_display_name = <<"A", " ", "b">>
    /\ state = LoadState(disk)
    /\ prefer_utf8 = FALSE
    /\ pc = "idle"
    /\ caller = "none"
    /\ files = <<>>
    /\ idx = 0
    /\ store = NoStore
    /\ info = JNull
    /\ uploads = <<>>
    /\ imports = <<>>
    /\ ncalls = 0
    /\ calls = <<>>
    /\ last = Done("load_state", <<>>, "return", state)
    /\ resolved = NoStore
    /\ input \in FnArgs
    /\ output = NoRes

tool == <<state, disk, config, stores, pc, caller, batch, ncalls, calls, last,
          resolved>>

\* self.state = ledger; self._save_state(); self._load_state()
ApplySaveLoad ==
    /\ input.fn = "save_load"
    /\ output = NoRes
    /\ LET w == WriteText(input.ledger)
       IN  output' = [out |-> w.out, val |-> ReadText(w.file)]
    /\ UNCHANGED <<tool, input>>

\* self._ascii_safe(s)
ApplyAsciiSafe ==
    /\ input.fn = "_ascii_safe"
    /\ output = NoRes
    /\ \E u \in Uuids :
        output' = [out |-> "return", val |-> AsciiSafe(input.s, u)]
    /\ UNCHANGED <<tool, input>>

\* self._is_valid_file_id(s), and the same on the file_ref that
\* import_file_to_store makes of s
ApplyIsValidFileId ==
    /\ input.fn = "_is_valid_file_id"
    /\ output = NoRes
    /\ output' = [out |-> "return",
                  val |-> [valid |-> IsValidFileId(input.s),
                           normalized |-> IsValidFileId(NormalizeRef(input.s))]]
    /\ UNCHANGED <<tool, input>>

\* prepare() on a listing of two files with an empty ledger, prefer_utf8 not
\* set and every remote upload accepted: upload_file of the first file, then
\* of the second, each drawing its own uuid (two uuid4 are never equal); the
\* result is the events of the two calls
ApplyUploadNames ==
    /\ input.fn = "upload_names"
    /\ output = NoRes
    /\ \E u1 \in Uuids, u2 \in Uuids :
        /\ u1 # u2
        /\ LET f1 == input.s[1]
               f2 == input.s[2]
               r1 == UploadFile(EmptyLedger, DiskMissing, f1, FALSE, u1,
                                Accepted(AsciiSafe(FileName(f1), u1)),
                                NotTried, "ok")
               r2 == UploadFile(r1.state, r1.disk, f2, FALSE, u2,
                                Accepted(AsciiSafe(FileName(f2), u2)),
                                NotTried, "ok")
           IN  output' = [out |-> "return", val |-> <<r1.calls, r2.calls>>]
    /\ UNCHANGED <<tool, input>>

FnNext ==
    \/ ApplySaveLoad
    \/ ApplyAsciiSafe
    \/ ApplyIsValidFileId
    \/ ApplyUploadNames

FnSpec == FnInit /\ [][FnNext]_vars

(***************************************************************************)
(* The properties.                                                         *)
(***************************************************************************)
\* The identifier syntax of the specification: a non-empty identifier whose
\* id, once the identifier is brought to the files/<id> form, has 1 to 40
\* characters, each of them in [a-z0-9-].
ValidPerSpec(fid) ==
    /\ fid # <<>>
    /\ LET ref == IF StartsWith(fid, FilesPrefix) THEN fid
                  ELSE FilesPrefix \o fid
           id == SubSeq(ref, Len(FilesPrefix) + 1, Len(ref))
       IN  /\ Len(id) >= 1
           /\ Len(id) <= 40
           /\ \A i \in 1..Len(id) : IsIdChar(id[i])

\* the ledger st holds a valid entry for the path p
HasValidEntry(st, p) ==
    /\ st.type = "object"
    /\ p \in DOMAIN st.v
    /\ st.v[p].type = "object"
    /\ ValidPerSpec(Get(st.v[p].v, "file_id"))

\* the step is a call of upload_file, of clean_state
IsUploadStep == pc \in {"idle", "prep_upload"} /\ last'.op = "upload_file"
IsCleanStep == (pc = "idle" /\ last'.op = "clean_state") \/ pc = "prep_clean"

\* the names of the events of kind t among the events cs, in order
EventsOf(cs, t) ==
    LET sel == SelectSeq(cs, LAMBDA e : e.t = t)
    IN  [i \in 1..Len(sel) |-> sel[i].a]

\* C1: upload_file on a path whose ledger entry is valid returns that entry,
\* issues no remote upload (no request at all, and no write of the ledger
\* file) and leaves the ledger in memory and the ledger file as they were,
\* whatever calls came before.
C1_IdempotentUpload ==
    [][(IsUploadStep /\ HasValidEntry(state, last'.arg)) =>
        /\ last'.out = "return"
        /\ last'.val.v = state.v[last'.arg]
        /\ calls' = <<>>
        /\ state' = state
        /\ disk' = disk]_vars

\* a second call on the tool is an upload_file that returned the cached entry
C1_Witness ==
    /\ pc = "returned"
    /\ ncalls = 2
    /\ last.op = "upload_file"
    /\ last.out = "return"
    /\ calls = <<>>
    /\ HasValidEntry(state, last.arg)
    /\ last.val.v = state.v[last.arg]

\* the files of the upload records ups, and the files among them whose
\* upload_file returned a file_id
UploadedFiles(ups) == [i \in 1..Len(ups) |-> ups[i].f]
FilesWithId(ups) == UploadedFiles(SelectSeq(ups, LAMBDA x : x.id # <<>>))

\* C2: a prepare() that has its listing and has pruned the ledger is never
\* left by an exception of an upload or of an import: it returns the store
\* that was resolved, having called upload_file for every file of the listing,
\* in order, and import_file_to_store for every file whose upload returned a
\* file_id.
C2_BatchResilience ==
    last.op = "prepare" =>
        IF last.out = "return"
        THEN /\ \E i \in 1..Len(stores) : stores[i] = last.val.v.store
             /\ UploadedFiles(last.val.v.uploads) = last.val.v.files
             /\ last.val.v.imports = FilesWithId(last.val.v.uploads)
        ELSE last.arg \in {"create_or_get", "list_docs", "clean_state"}

\* prepare() returned after the upload of the first of two files raised and
\* the second file was uploaded and imported
C2_Witness ==
    /\ last.op = "prepare"
    /\ last.out = "return"
    /\ Len(last.val.v.files) = 2
    /\ last.val.v.uploads[1].out = "raise"
    /\ last.val.v.uploads[2].id # <<>>
    /\ last.val.v.imports = <<last.val.v.files[2]>>

\* the keys of the ledger st whose entry is invalid in the words of the
\* specification
InvalidPerSpec(st) ==
    {k \in DOMAIN st.v : ~ValidPerSpec(Get(st.v[k].v, "file_id"))}

\* C3: the remote import is requested only with files/<id>, <id> of 1 to 40
\* characters in [a-z0-9-]; an empty identifier is skipped as missing and an
\* identifier that is invalid once normalized is skipped as invalid, both
\* without a remote request.
C3_NoBadIdReachesRemote ==
    /\ \A i \in 1..Len(calls) :
        calls[i].t = "import" =>
            StartsWith(calls[i].a, FilesPrefix) /\ ValidPerSpec(calls[i].a)
    /\ (last.op = "import_file_to_store" /\ last.arg = <<>>) =>
        (last.val.v = "Skipped_missing" /\ calls = <<>>)
    /\ (last.op = "import_file_to_store" /\ last.arg # <<>>
            /\ ~ValidPerSpec(last.arg)) =>
        (last.val.v = "Skipped_invalid" /\ calls = <<>>)

\* C4: clean_state removes an entry if and only if its file_id is empty or
\* invalid once normalized; the other entries stay as they are and the keys
\* removed are the keys reported.
C4_PruneRemovesExactlyInvalid ==
    [][(IsCleanStep /\ last'.op = "clean_state" /\ last'.out = "return") =>
        /\ last'.val.v = InvalidPerSpec(state)
        /\ state' = Without(state, InvalidPerSpec(state))]_vars

\* C5: clean_state of a ledger without an invalid entry changes nothing and
\* writes nothing, and a clean_state of the ledger a clean_state left removes
\* nothing and writes nothing.
C5_PruneIdempotent ==
    [][(IsCleanStep /\ state.type = "object" /\ NonDictKeys(state) = {}) =>
        /\ InvalidPerSpec(state) = {} =>
            /\ last'.out = "return"
            /\ state' = state
            /\ disk' = disk
            /\ calls' = <<>>
        /\ last'.out = "return" =>
            LET again == CleanState(state', disk', "ok", {})
            IN  /\ again.state = state'
                /\ again.removed = {}
                /\ again.calls = <<>>]_vars

\* the path p has no cached entry in the ledger st
NoCachedEntry(st, p) ==
    /\ st.type = "object"
    /\ p \in DOMAIN st.v =>
        (st.v[p].type = "object" /\ Get(st.v[p].v, "file_id") = <<>>)

\* the attempts of a call and the exceptions they raised, in order
AttemptTrace(cs) == SelectSeq(cs, LAMBDA e : e.t \in {"attempt", "raise"})

\* C6: upload_file on a path without a cached entry attempts the original
\* name first when prefer_utf8 and the safe name only after that attempt has
\* raised, a second exception leaving upload_file; it attempts the safe name
\* alone, once, when not prefer_utf8.  It issues at most 2, respectively at
\* most 1, remote upload requests.
C6_UploadFallbackOrder ==
    [][(IsUploadStep /\ NoCachedEntry(state, last'.arg)) =>
        LET orig == FileName(last'.arg)
            tr == AttemptTrace(calls')
            reqs == EventsOf(calls', "upload")
        IN  \E u \in Uuids :
            LET safe == SafeOf[orig, u]
            IN  /\ IF prefer_utf8
                   THEN \/ tr = <<Ev("attempt", orig)>>
                        \/ tr = <<Ev("attempt", orig), Ev("raise", orig),
                                  Ev("attempt", safe)>>
                        \/ /\ tr = <<Ev("attempt", orig), Ev("raise", orig),
                                     Ev("attempt", safe), Ev("raise", safe)>>
                           /\ last'.out = "raise"
                   ELSE \/ tr = <<Ev("attempt", safe)>>
                        \/ /\ tr = <<Ev("attempt", safe), Ev("raise", safe)>>
                           /\ last'.out = "raise"
                /\ Len(reqs) <= IF prefer_utf8 THEN 2 ELSE 1
                /\ \A i \in 1..Len(reqs) : reqs[i] \in {orig, safe}]_vars

C6_Witness ==
    /\ pc = "returned"
    /\ prefer_utf8
    /\ last.op = "upload_file"
    /\ last.out = "return"
    /\ Len(AttemptTrace(calls)) = 3
    /\ EventsOf(calls, "upload") =
        <<FileName(last.arg), Get(last.val.v.v, "safe_file_name")>>

\* C7: whenever upload_file or clean_state returns, the ledger file holds the
\* ledger in memory; after an upload of p that returned the entry e, both map
\* p to e.
C7_ImmediatePersistence ==
    (last.op \in {"upload_file", "clean_state"} /\ last.out = "return") =>
        /\ LoadState(disk) = state
        /\ last.op = "upload_file" =>
            /\ state.v[last.arg] = last.val.v
            /\ LoadState(disk).v[last.arg] = last.val.v

\* C8: import_file_to_store returns Registered, Skipped or Failed; no
\* exception leaves it, whatever the import request and the polls do.
C8_ImportNeverRaises ==
    last.op = "import_file_to_store" =>
        /\ last.out # "raise"
        /\ last.out = "return" =>
            last.val.v \in {"Registered", "Skipped_missing", "Skipped_invalid",
                          "Failed"}

\* a step of create_or_get_file_search_store that gives its result
IsResolveStep == pc = "idle" /\ last'.op = "create_or_get"

\* C9: create_or_get_file_search_store, once it has the listing, creates no
\* store and returns the first listed store whose display name is the
\* requested name or its safe form when there is one; otherwise it creates
\* with the safe name when not prefer_utf8, and with the requested name and,
\* only after that create has raised, with the safe name when prefer_utf8.
C9_StoreResolution ==
    [][IsResolveStep =>
        LET creates == EventsOf(calls', "create")
            N == store_display_name
        IN  \E u \in Uuids :
            LET safe == SafeOf[N, u]
                m == {i \in 1..Len(stores) :
                        stores[i].display_name \in {N, safe}}
            IN  \/ last'.out = "raise" /\ calls' = <<Ev("list", <<>>)>>
                \/ /\ m # {}
                   /\ creates = <<>>
                   /\ stores' = stores
                   /\ last'.out = "return"
                   /\ last'.val.v = stores[Min(m)]
                \/ /\ m = {}
                   /\ IF prefer_utf8
                      THEN \/ /\ creates = <<N>>
                              /\ last'.out = "return"
                              /\ last'.val.v.display_name = N
                              /\ stores' = Append(stores, last'.val.v)
                           \/ /\ creates = <<N, safe>>
                              /\ IF last'.out = "return"
                                 THEN /\ last'.val.v.display_name = safe
                                      /\ stores' = Append(stores, last'.val.v)
                                 ELSE stores' = stores
                      ELSE /\ creates = <<safe>>
                           /\ IF last'.out = "return"
                              THEN /\ last'.val.v.display_name = safe
                                   /\ stores' = Append(stores, last'.val.v)
                              ELSE stores' = stores]_vars

C9_Witness ==
    /\ pc = "returned"
    /\ last.op = "create_or_get"
    /\ last.out = "return"
    /\ calls = <<Ev("list", <<>>)>>
    /\ Len(stores) = 2
    /\ stores[1].display_name = stores[2].display_name
    /\ stores[1].display_name # store_display_name
    /\ last.val.v = stores[1]

\* C10: _load_state returns a mapping for every content of the ledger file,
\* the empty one for a missing or an unparseable file, so that the ledger in
\* memory is a mapping at all times and clean_state raises for no other
\* reason than the write of the file.
C10_LoadNeverBlocks ==
    /\ last.op = "load_state" =>
        /\ last.out = "return"
        /\ last.val.v.type = "object"
        /\ disk.kind \in {"missing", "corrupt"} => last.val.v = EmptyLedger
    /\ state.type = "object"
    /\ (last.op = "clean_state" /\ last.out = "raise") =>
        \E i \in 1..Len(calls) : calls[i].t = "write"

\* C11: _save_state() of a ledger followed by _load_state() gives a ledger
\* equal to it, non-ASCII characters of paths and values included.
C11_LedgerRoundTrip ==
    (input.fn = "save_load" /\ output # NoRes) => output.val = input.ledger

IsFilesRef(ref) ==
    /\ StartsWith(ref, FilesPrefix)
    /\ LET id == SubSeq(ref, Len(FilesPrefix) + 1, Len(ref))
       IN  /\ Len(id) >= 1
           /\ Len(id) <= 40
           /\ \A i \in 1..Len(id) : IsIdChar(id[i])

\* C13: _is_valid_file_id holds of a reference if and only if the reference
\* is files/ followed by an id of 1 to 40 characters in [a-z0-9-];
\* import_file_to_store tests a bare id with files/ put before it.
C13_ValidityPredicate ==
    (input.fn = "_is_valid_file_id" /\ output # NoRes) =>
        /\ output.val.valid = IsFilesRef(input.s)
        /\ output.val.normalized =
            IsFilesRef(IF StartsWith(input.s, FilesPrefix) THEN input.s
                       ELSE FilesPrefix \o input.s)

\* C14: once create_or_get_file_search_store has returned a store for the
\* name N, to prepare or to a direct caller, the lookup of the ask command by
\* the same name N finds that store.
C14_StoreNameEquivalence ==
    (last.op = "ask" /\ last.out = "return" /\ resolved # NoStore) =>
        last.val.v = resolved

\* the last event of the step
LastEvent == calls[Len(calls)]

\* C15: import_file_to_store returns the operation (Registered) only from a
\* test of op.done that read True; while the test reads False it polls
\* again, and it polls only after a test that read False.
C15_ImportCompletion ==
    /\ (last.op = "import_file_to_store" /\ last.out = "return"
            /\ last.val.v = "Registered") =>
        (calls # <<>> /\ LastEvent = Ev("op.done", <<"True">>))
    /\ (last.op = "import_file_to_store" /\ last.out = "pending") =>
        (pc = "poll" /\ calls # <<>>
            /\ LastEvent = Ev("op.done", <<"False">>))
    /\ pc = "poll" =>
        (last.op = "import_file_to_store" /\ last.out = "pending")

C15_Witness ==
    /\ pc = "returned"
    /\ last.op = "import_file_to_store"
    /\ last.val.v = "Registered"
    /\ calls = <<Ev("poll", <<>>), Ev("op.done", <<"True">>)>>

\* prepare() has started and has not come back to its caller
InPrepare ==
    \/ pc \in PrepareStages
    \/ pc = "poll" /\ caller = "prepare"

\* the operation polled has reported done, or the poll has raised
OpSettled ==
    /\ calls # <<>>
    /\ LastEvent \in {Ev("op.done", <<"True">>), Ev("poll", <<>>)}

\* C16: if every import operation that is waited for comes to report done
\* (or its poll raises), a prepare() that has started comes back to its
\* caller; a prepare() can stay away only in the wait for an operation that
\* never reports done.
C16_BatchTermination ==
    [](pc = "poll" => <>OpSettled) => (InPrepare ~> pc = "returned")

C16_Witness ==
    /\ pc = "returned"
    /\ last.op = "prepare"
    /\ last.out = "return"
    /\ Len(last.val.v.imports) = 2

\* the temporary copies the events leave in the temporary folder: those
\* staged and not removed afterwards
TempCopiesLeft(evs) ==
    {evs[i].a : i \in {k \in 1..Len(evs) :
        /\ evs[k].t = "stage"
        /\ \A m \in (k + 1)..Len(evs) :
              evs[m] # Ev("unlink", evs[k].a)}}

\* C17: when upload_file has returned or raised, no temporary copy it staged
\* remains, and for a file with an ASCII name none was staged at all
C17_TempCopyScoped ==
    last.op = "upload_file" =>
        /\ TempCopiesLeft(calls) = {}
        /\ ~HasNonAscii(FileName(last.arg)) =>
              \A i \in 1..Len(calls) : calls[i].t # "stage"

\* prepare() is on the import of the current file: calling
\* import_file_to_store, or in its wait loop
OnImport == pc = "prep_import" \/ (pc = "poll" /\ caller = "prepare")

\* the files of the listing before the i-th whose upload gave an identifier
UploadedBefore(i) ==
    {j \in 1..(i - 1) : uploads[j].out = "return" /\ uploads[j].id # <<>>}

\* where prepare() is, the store is resolved; nothing is handled before the
\* prune; the files handled are the first of the listing, in its order, the
\* current one being the last; an import is only reached with an identifier
\* from the upload of the same file; and the files before the current one
\* have had their import
BatchInOrder ==
    InPrepare =>
        /\ store # NoStore /\ store = resolved
        /\ pc = "prep_clean" => idx = 0 /\ uploads = <<>> /\ imports = <<>>
        /\ pc = "prep_upload" => idx \in 1..Len(files) /\ Len(uploads) = idx - 1
        /\ OnImport =>
              /\ idx \in 1..Len(files) /\ Len(uploads) = idx
              /\ uploads[idx].out = "return" /\ uploads[idx].id # <<>>
              /\ info.v["file_id"] = uploads[idx].id
        /\ pc = "poll" => imports # <<>> /\ imports[Len(imports)] = files[idx]
        /\ Len(uploads) <= Len(files)
        /\ \A i \in 1..Len(uploads) : uploads[i].f = files[i]
        /\ pc # "prep_clean" =>
              LET n == IF pc \in {"poll", "prep_return"}
                       THEN Len(uploads) + 1 ELSE idx
              IN  /\ Len(imports) = Cardinality(UploadedBefore(n))
                  /\ \A k \in 1..Len(imports) :
                        \E j \in UploadedBefore(n) :
                            /\ imports[k] = files[j]
                            /\ Cardinality(UploadedBefore(j)) = k - 1

\* prepare() leaves the import of a file: for the next file or for its end
LeavesImport == OnImport /\ InPrepare /\ pc' # "poll"

\* C18: prepare resolves the store, prunes, then handles the files one at a
\* time in listing order; a file is imported only after its own upload has
\* returned a non-empty identifier, and prepare goes on to the next file only
\* when the import of the current one is over, its wait loop included
C18_PerFileOrdering ==
    [][/\ BatchInOrder'
       /\ LeavesImport =>
            \/ calls' = <<>>
            \/ LastEvent' # Ev("op.done", <<"False">>)]_vars

\* the second file of the listing is being imported after the first has been
\* uploaded and imported
C18_Witness ==
    /\ pc = "poll" /\ caller = "prepare"
    /\ idx = 2 /\ Len(imports) = 2
    /\ calls # <<>> /\ LastEvent = Ev("op.done", <<"False">>)

\* the ledger st has an entry for the path p
HasEntry(st, p) == st.type = "object" /\ p \in DOMAIN st.v

\* C19: when upload_file raises for a path that has no entry, the ledger in
\* memory and the ledger file are as before the call, and neither holds an
\* entry for the path
C19_FailedUploadFrame ==
    [][(IsUploadStep /\ last'.out = "raise" /\ ~HasEntry(state, last'.arg)) =>
        /\ state' = state
        /\ disk' = disk
        /\ ~HasEntry(state', last'.arg)
        /\ ~HasEntry(LoadState(disk'), last'.arg)]_vars

\* every entry of the ledger st has a valid identifier
AllEntriesValid(st) ==
    st.type = "object" => \A p \in DOMAIN st.v : HasValidEntry(st, p)

\* C20: when prepare has returned, every entry of the ledger in memory and
\* of the ledger file has a valid identifier
C20_CleanLedgerAfterBatch ==
    (pc = "returned" /\ last.op = "prepare" /\ last.out = "return") =>
        /\ AllEntriesValid(state)
        /\ AllEntriesValid(LoadState(disk))

\* an earlier run of create_or_get_file_search_store has created the store
\* it returned: the store is not one the service held at start-up
CreatedEarlier ==
    /\ resolved # NoStore
    /\ resolved.display_name \notin ListedNames
    /\ \E i \in 1..Len(stores) : stores[i] = resolved

\* C21: once a run of create_or_get_file_search_store has created a store for
\* the display name, a later run with the same name and configuration issues
\* no create request and, when it returns, returns a store the service
\* already held
C21_NoDuplicateStore ==
    [][(IsResolveStep /\ CreatedEarlier) =>
        /\ EventsOf(calls', "create") = <<>>
        /\ stores' = stores
        /\ last'.out = "return" =>
              \E i \in 1..Len(stores) : stores[i] = last'.val.v]_vars

\* C22: for two distinct files of one listing, the remote names that their
\* uploads under the sanitized name request are different
C22_DistinctRemoteNames ==
    (input.fn = "upload_names" /\ output.out = "return") =>
        LET first == EventsOf(output.val[1], "upload")
            second == EventsOf(output.val[2], "upload")
        IN  \A i \in 1..Len(first), j \in 1..Len(second) :
                first[i] # second[j]

====
